---- MODULE Spec2Model ----
(***************************************************************************)
(* Model of package pipeline (src/pipeline.go): a generic Pipeline[T] that *)
(* chains StepFuncs, wraps them with Middleware at registration time, and  *)
(* the combinators Wrap, Conditional and Parallel.  T is instantiated at   *)
(* int.  Function values are modelled as data: a StepFunc is a record that *)
(* names the closure (its kind and what it captured), and calling it is    *)
(* done by the actions below, one per statement group of the Go code.      *)
(***************************************************************************)
EXTENDS Integers, Sequences, FiniteSets, TLC

VARIABLES
    steps,        \* Pipeline.steps: the registered (already wrapped) StepFuncs
    middlewares,  \* Pipeline.middlewares
    seen,         \* history: p.middlewares as it was at each Then call
    applied,      \* how many times a Middleware function has been called (Then, line 37)
    pc,           \* position of the goroutine that runs Execute
    input,        \* Execute's parameter
    curr,         \* Execute's local curr
    err,          \* Execute's local err
    si,           \* position of the range loop over p.steps (1-based)
    depth,        \* how many middleware closures of steps[si] are on the call stack
    arg,          \* the argument the innermost active closure was called with
    rv,           \* value being returned by the innermost returned closure
    re,           \* error being returned by the innermost returned closure
    results,      \* Parallel's local results slice
    errs,         \* Parallel's local errs slice
    wg,           \* Parallel's WaitGroup counter
    launched,     \* how many iterations of Parallel's launch loop have run
    bpc,          \* position of each branch goroutine of the running Parallel
    log,          \* observable trace of the current Execute call
    ret,          \* what the last Execute call returned
    prev          \* history: what the call before it returned, when Execute
                  \* is called again with the same input (ExecuteAgain)

vars == <<steps, middlewares, seen, applied, pc, input, curr, err, si, depth, arg,
          rv, re, results, errs, wg, launched, bpc, log, ret, prev>>

----------------------------------------------------------------------------
(* Bounds of the exploration *)

MaxSteps == 2
MaxMw == 2
MaxBranches == 2
MaxInput == 2

Inputs == 1..MaxInput

----------------------------------------------------------------------------
(* Values of the caller-supplied functions.  nil is Go's nil error. *)

nil == "nil"

\* pure functions func(T) T handed to Wrap (tests, lines 116-117, 183-184)
PureFns == {"inc", "dbl"}

PureVal(f, x) == IF f = "inc" THEN x + 1 ELSE x * 2

\* Wrap(f): the returned StepFunc calls f and reports no error
Wrap(f, x) == [val |-> PureVal(f, x), err |-> nil]

\* StepFuncs written by hand: "bad" always fails with a partial output,
\* "odd" fails on odd input only, "hang" never returns (the actions that
\* call a StepFunc are disabled for it, so RawFn is never asked about it).
RawFns == {"bad", "odd", "hang"}

RawFn(f, x) ==
    IF f = "bad" THEN [val |-> x + 10, err |-> "E1"]
    ELSE IF x % 2 = 1 THEN [val |-> x + 20, err |-> "E2"]
    ELSE [val |-> x, err |-> nil]

\* calling a leaf StepFunc s(x)
FnCall(f, x) == IF f \in PureFns THEN Wrap(f, x) ELSE RawFn(f, x)

\* combiners func([]T) (T, error): the tests' sum, a position-sensitive
\* fold, and one that reports a failure
Combiners == {"sum", "horner", "cfail"}

RECURSIVE SumSeq(_)
SumSeq(s) == IF Len(s) = 0 THEN 0 ELSE s[1] + SumSeq(Tail(s))

RECURSIVE Horner(_, _)
Horner(s, acc) == IF Len(s) = 0 THEN acc ELSE Horner(Tail(s), acc * 100 + s[1])

Combiner(c, rs) ==
    IF c = "sum" THEN [val |-> SumSeq(rs), err |-> nil]
    ELSE IF c = "horner" THEN [val |-> Horner(rs, 0), err |-> nil]
    ELSE [val |-> Len(rs), err |-> "EC"]

\* predicates func(T) bool handed to Conditional (test, line 172)
Predicate(p, x) == x % 2 = 0

\* Middleware bodies.  Each returned closure runs its "before" logic, calls
\* next(x) once, runs its "after" logic and returns (test, lines 146-153).
\* "recover" turns a failure of next into success with value 0, "deny"
\* reports a failure of its own when next succeeds; otherwise both return
\* next's result unchanged.
Mws == {"recover", "deny"}

MwRet(m, res, e) ==
    IF m = "recover" /\ e # nil THEN [val |-> 0, err |-> nil]
    ELSE IF m = "deny" /\ e = nil THEN [val |-> res, err |-> "EM"]
    ELSE [val |-> res, err |-> e]

----------------------------------------------------------------------------
(* StepFunc closures *)

\* a StepFunc value that is not a middleware closure
Leaf(f) ==
    [layers |-> <<>>, kind |-> "fn", fn |-> f, comb |-> "none",
     branches |-> <<>>, pred |-> "none", thenStep |-> "none", elseStep |-> "none"]

\* Conditional(predicate, thenStep, elseStep): the closure captures all three
Conditional(p, t, e) ==
    [layers |-> <<>>, kind |-> "cond", fn |-> "none", comb |-> "none",
     branches |-> <<>>, pred |-> p, thenStep |-> t, elseStep |-> e]

\* Parallel(combiner, steps...): the closure captures combiner and steps
Parallel(c, bs) ==
    [layers |-> <<>>, kind |-> "par", fn |-> "none", comb |-> c,
     branches |-> bs, pred |-> "none", thenStep |-> "none", elseStep |-> "none"]

\* mw(next): the closure a Middleware returns captures next; layers lists
\* the enclosing middleware closures, outermost first
MwApply(mw, next) == [next EXCEPT !.layers = <<mw>> \o @]

\* mutant: the loop stops before the first middleware
RECURSIVE ThenLoopSkipFirst(_, _, _)
ThenLoopSkipFirst(mws, step, i) ==
    IF i >= 2 THEN ThenLoopSkipFirst(mws, MwApply(mws[i], step), i - 1) ELSE step

\* mutant: the step is registered as it was passed
ThenLoopNone(mws, step, i) == step

\* mutant: the loop runs from the first middleware to the last
RECURSIVE ThenLoopForward(_, _, _)
ThenLoopForward(mws, step, i) ==
    IF i >= 1 THEN MwApply(mws[i], ThenLoopForward(mws, step, i - 1)) ELSE step

\* Then's loop: for i := len(p.middlewares) - 1; i >= 0; i-- { step = p.middlewares[i](step) }
RECURSIVE ThenLoop(_, _, _)
ThenLoop(mws, step, i) ==
    IF i >= 1 THEN ThenLoop(mws, MwApply(mws[i], step), i - 1) ELSE step

----------------------------------------------------------------------------
(* The steps the callers of this model register *)

BranchFns == PureFns \cup RawFns

BranchLists == UNION {[1..n -> BranchFns] : n \in 0..MaxBranches}

\* Spec: two leaf steps and a Conditional that fails on odd arguments
RegSteps ==
    {Leaf("inc"), Leaf("dbl"), Conditional("even", "inc", "bad")}

\* SpecCond: every Conditional step over the leaf StepFuncs
CondSteps == {Conditional("even", t, e) : t \in BranchFns, e \in BranchFns}

\* SpecPar: every Parallel step with up to MaxBranches branches
ParSteps == {Parallel(c, bs) : c \in Combiners, bs \in BranchLists}

NoRet == [done |-> FALSE, val |-> 0, err |-> nil]

NoPrev == [done |-> FALSE, val |-> 0, err |-> nil, log |-> <<>>]

\* an entry of the trace: what happened, to which function, in which step
\* of the pipeline, in which branch (0: none), with which value
Event(e, w, k, b, x) == [ev |-> e, who |-> w, idx |-> k, br |-> b, x |-> x]

\* the state of an Execute call that has not started
ExecIdle ==
    /\ pc = "idle" /\ input = 0 /\ curr = 0 /\ err = nil /\ si = 0
    /\ depth = 0 /\ arg = 0 /\ rv = 0 /\ re = nil
    /\ results = <<>> /\ errs = <<>> /\ wg = 0 /\ launched = 0 /\ bpc = <<>>
    /\ log = <<>> /\ ret = NoRet /\ prev = NoPrev

ExecReset ==
    /\ pc' = "idle" /\ input' = 0 /\ curr' = 0 /\ err' = nil /\ si' = 0
    /\ depth' = 0 /\ arg' = 0 /\ rv' = 0 /\ re' = nil
    /\ results' = <<>> /\ errs' = <<>> /\ wg' = 0 /\ launched' = 0 /\ bpc' = <<>>
    /\ log' = <<>> /\ ret' = NoRet /\ prev' = NoPrev

----------------------------------------------------------------------------
(* New, Use, Then *)

\* New[T](): empty steps and middlewares
Init ==
    /\ steps = <<>>
    /\ middlewares = <<>>
    /\ seen = <<>>
    /\ applied = 0
    /\ ExecIdle

\* mutant: the middleware is put in front of the list
UsePrepend(mw) ==
    /\ pc = "idle"
    /\ Len(middlewares) < MaxMw
    /\ middlewares' = <<mw>> \o middlewares
    /\ UNCHANGED <<steps, seen, applied>>
    /\ ExecReset

\* p.Use(mw).  The builder is used by one goroutine, between Execute calls
\* (no synchronisation exists in Pipeline); the locals of the finished
\* Execute call are dead and what was observed of it is dropped.
Use(mw) ==
    /\ pc = "idle"
    /\ Len(middlewares) < MaxMw
    /\ middlewares' = Append(middlewares, mw)
    /\ UNCHANGED <<steps, seen, applied>>
    /\ ExecReset

\* p.Then(step)
Then(step) ==
    /\ pc = "idle"
    /\ Len(steps) < MaxSteps
    /\ LET wrapped == ThenLoop(middlewares, step, Len(middlewares))
       IN /\ steps' = Append(steps, wrapped)
          /\ applied' = applied + Len(wrapped.layers)
    /\ seen' = Append(seen, middlewares)
    /\ UNCHANGED middlewares
    /\ ExecReset

----------------------------------------------------------------------------
(* Execute *)

\* mutant: the middlewares are looked up when the step runs
LayersLive(j) == middlewares

\* the middleware closures around registered step j, outermost first: fixed
\* when Then built the closure (lines 36-39)
Layers(j) == steps[j].layers

\* mutant: curr left at T's zero value
InitCurrZero(x) == 0

\* the initial value of curr, line 46
InitCurr(x) == x

\* mutant: every step is called with Execute's input
CallArgInput(in, cur) == in

\* the argument of the call s(curr), line 49
CallArg(in, cur) == cur

\* mutant: the error is ignored and the loop goes on
StopsNever(e) == FALSE

\* line 50: if err != nil
Stops(e) == e # nil

\* p.Execute(input), lines 46-47
ExecuteStart(x) ==
    /\ pc = "idle"
    /\ pc' = "loop"
    /\ input' = x /\ curr' = InitCurr(x) /\ err' = nil /\ si' = 1
    /\ depth' = 0 /\ arg' = 0 /\ rv' = 0 /\ re' = nil
    /\ results' = <<>> /\ errs' = <<>> /\ wg' = 0 /\ launched' = 0 /\ bpc' = <<>>
    /\ log' = <<>> /\ ret' = NoRet
    /\ UNCHANGED <<steps, middlewares, seen, applied>>

\* a call p.Execute(x)
Execute(x) == ExecuteStart(x) /\ prev' = NoPrev

\* a call p.Execute(x) with the input of the call that has just returned:
\* what that call returned and did is remembered
ExecuteAgain(x) ==
    /\ ret.done
    /\ x = input
    /\ ExecuteStart(x)
    /\ prev' = [done |-> TRUE, val |-> ret.val, err |-> ret.err, log |-> log]

\* line 48-49: the range loop takes the next step and calls s(curr)
ExecuteCall ==
    /\ pc = "loop"
    /\ si <= Len(steps)
    /\ pc' = "enter"
    /\ depth' = 0
    /\ arg' = CallArg(input, curr)
    /\ log' = Append(log, Event("invoke", "step", si, 0, curr))
    /\ UNCHANGED <<steps, middlewares, seen, applied, prev, input, curr, err, si, rv, re,
                   results, errs, wg, launched, bpc, ret>>

\* line 54: the loop is exhausted, return curr, nil
ExecuteDone ==
    /\ pc = "loop"
    /\ si > Len(steps)
    /\ pc' = "idle"
    /\ ret' = [done |-> TRUE, val |-> curr, err |-> nil]
    /\ UNCHANGED <<steps, middlewares, seen, applied, prev, input, curr, err, si, depth,
                   arg, rv, re, results, errs, wg, launched, bpc, log>>

\* a middleware closure is entered: its "before" logic, then next(x)
MwBefore ==
    /\ pc = "enter"
    /\ depth < Len(Layers(si))
    /\ depth' = depth + 1
    /\ log' = Append(log, Event("before", Layers(si)[depth + 1], si, 0, arg))
    /\ UNCHANGED <<steps, middlewares, seen, applied, prev, pc, input, curr, err, si, arg,
                   rv, re, results, errs, wg, launched, bpc, ret>>

\* the innermost closure is a leaf StepFunc: it runs and returns
LeafCall ==
    /\ pc = "enter"
    /\ depth = Len(Layers(si))
    /\ steps[si].kind = "fn"
    /\ steps[si].fn # "hang"
    /\ rv' = FnCall(steps[si].fn, arg).val
    /\ re' = FnCall(steps[si].fn, arg).err
    /\ pc' = "unwind"
    /\ log' = Append(log, Event("call", steps[si].fn, si, 0, arg))
    /\ UNCHANGED <<steps, middlewares, seen, applied, prev, input, curr, err, si, depth,
                   arg, results, errs, wg, launched, bpc, ret>>

\* mutant: the branches are taken the other way round
CondPickSwapped(b, t, e) == IF b THEN e ELSE t

\* lines 67-70: thenStep when the predicate holds, elseStep otherwise
CondPick(b, t, e) == IF b THEN t ELSE e

\* the innermost closure is Conditional's, lines 66-71
ConditionalCall ==
    /\ pc = "enter"
    /\ depth = Len(Layers(si))
    /\ steps[si].kind = "cond"
    /\ LET s == steps[si]
           chosen == CondPick(Predicate(s.pred, arg), s.thenStep, s.elseStep)
       IN /\ chosen # "hang"
          /\ rv' = FnCall(chosen, arg).val
          /\ re' = FnCall(chosen, arg).err
          /\ log' = log \o <<Event("pred", s.pred, si, 0, arg), Event("call", chosen, si, 0, arg)>>
    /\ pc' = "unwind"
    /\ UNCHANGED <<steps, middlewares, seen, applied, prev, input, curr, err, si, depth,
                   arg, results, errs, wg, launched, bpc, ret>>

\* mutant: the slice is made with length 0
AllocEmpty(n) == <<>>

\* make([]T, len(steps)), line 79: n slots holding T's zero value
Alloc(n) == [k \in 1..n |-> 0]

\* mutant: the WaitGroup counter is never raised
WgAddNone(n) == 0

\* wg.Add(len(steps)), line 82: the counter after the call
WgAdd(n) == n

\* the innermost closure is Parallel's: lines 77-82 allocate the slices and
\* call wg.Add(len(steps))
ParallelCall ==
    /\ pc = "enter"
    /\ depth = Len(Layers(si))
    /\ steps[si].kind = "par"
    /\ LET n == Len(steps[si].branches)
       IN /\ results' = Alloc(n)
          /\ errs' = [k \in 1..n |-> nil]
          /\ wg' = WgAdd(n)
          /\ bpc' = [k \in 1..n |-> "new"]
          /\ pc' = IF n = 0 THEN "wait" ELSE "go"
    /\ launched' = 0
    /\ log' = Append(log, Event("parallel", steps[si].comb, si, 0, arg))
    /\ UNCHANGED <<steps, middlewares, seen, applied, prev, input, curr, err, si, depth,
                   arg, rv, re, ret>>

\* lines 83-88: one iteration of the launch loop starts a goroutine
ParallelGo ==
    /\ pc = "go"
    /\ launched < Len(steps[si].branches)
    /\ launched' = launched + 1
    /\ bpc' = [bpc EXCEPT ![launched + 1] = "ready"]
    /\ pc' = IF launched + 1 = Len(steps[si].branches) THEN "wait" ELSE "go"
    /\ UNCHANGED <<steps, middlewares, seen, applied, prev, input, curr, err, si, depth,
                   arg, rv, re, results, errs, wg, log, ret>>

\* mutant: the goroutines share the loop variable and see its last value
BranchSlotShared(idx) == Len(bpc)

\* mutant: the goroutines store in the order they finish
BranchSlotArrival(idx) ==
    1 + Cardinality({k \in DOMAIN bpc : bpc[k] \in {"ran", "done"}})

\* the slot a branch goroutine stores into: its own idx (line 86)
BranchSlot(idx) == idx

\* line 86 in goroutine idx: results[idx], errs[idx] = s(input)
BranchRun(idx) ==
    /\ idx \in DOMAIN bpc
    /\ bpc[idx] = "ready"
    /\ steps[si].branches[idx] # "hang"
    /\ LET r == FnCall(steps[si].branches[idx], arg)
       IN /\ results' = [results EXCEPT ![BranchSlot(idx)] = r.val]
          /\ errs' = [errs EXCEPT ![BranchSlot(idx)] = r.err]
    /\ bpc' = [bpc EXCEPT ![idx] = "ran"]
    /\ log' = log \o <<Event("branch", steps[si].branches[idx], si, idx, arg),
                        Event("write", "slot", si, idx, BranchSlot(idx))>>
    /\ UNCHANGED <<steps, middlewares, seen, applied, prev, pc, input, curr, err, si,
                   depth, arg, rv, re, wg, launched, ret>>

\* line 85 in goroutine idx: the deferred wg.Done()
BranchDone(idx) ==
    /\ idx \in DOMAIN bpc
    /\ bpc[idx] = "ran"
    /\ wg' = wg - 1
    /\ bpc' = [bpc EXCEPT ![idx] = "done"]
    /\ UNCHANGED <<steps, middlewares, seen, applied, prev, pc, input, curr, err, si,
                   depth, arg, rv, re, results, errs, launched, log, ret>>

\* mutant: the launch loop is not followed by a wait
ParallelNoWait ==
    /\ pc = "wait"
    /\ pc' = "scan"
    /\ UNCHANGED <<steps, middlewares, seen, applied, prev, input, curr, err, si, depth,
                   arg, rv, re, results, errs, wg, launched, bpc, log, ret>>

\* mutant: the wait also ends as soon as a branch has reported an error
ParallelWaitOrFail ==
    /\ pc = "wait"
    /\ (wg = 0 \/ \E k \in DOMAIN errs : errs[k] # nil)
    /\ pc' = "scan"
    /\ UNCHANGED <<steps, middlewares, seen, applied, prev, input, curr, err, si, depth,
                   arg, rv, re, results, errs, wg, launched, bpc, log, ret>>

\* line 89: wg.Wait() returns once the counter is zero
ParallelWait ==
    /\ pc = "wait"
    /\ wg = 0
    /\ pc' = "scan"
    /\ UNCHANGED <<steps, middlewares, seen, applied, prev, input, curr, err, si, depth,
                   arg, rv, re, results, errs, wg, launched, bpc, log, ret>>

\* mutant: the scan finds no error
FailedNone(es) == {}

\* the errs entries the range loop of line 91 finds non-nil
Failed(es) == {k \in DOMAIN es : es[k] # nil}

\* mutant: the last of them
LastFailed(es) == CHOOSE k \in Failed(es) : \A j \in Failed(es) : k >= j

\* the first of them in iteration order
FirstFailed(es) == CHOOSE k \in Failed(es) : \A j \in Failed(es) : k <= j

\* mutant: the output of the branch whose error is returned
ScanValueFailing(rs, k) == rs[k]

\* the value returned with a branch error, line 93: results[0]
ScanValue(rs, k) == rs[1]

\* lines 91-95: return results[0] and the first error found, if any
ParallelScan ==
    /\ pc = "scan"
    /\ IF Failed(errs) # {}
       THEN /\ rv' = ScanValue(results, FirstFailed(errs))
            /\ re' = errs[FirstFailed(errs)]
            /\ pc' = "unwind"
       ELSE /\ pc' = "combine"
            /\ UNCHANGED <<rv, re>>
    /\ log' = Append(log, Event("scan", "errs", si, 0, 0))
    /\ UNCHANGED <<steps, middlewares, seen, applied, prev, input, curr, err, si, depth,
                   arg, results, errs, wg, launched, bpc, ret>>

\* line 97: return combiner(results)
ParallelCombine ==
    /\ pc = "combine"
    /\ rv' = Combiner(steps[si].comb, results).val
    /\ re' = Combiner(steps[si].comb, results).err
    /\ pc' = "unwind"
    /\ log' = Append(log, Event("combine", steps[si].comb, si, 0, 0))
    /\ UNCHANGED <<steps, middlewares, seen, applied, prev, input, curr, err, si, depth,
                   arg, results, errs, wg, launched, bpc, ret>>

\* next(x) has returned into a middleware closure: its "after" logic, then
\* it returns
MwAfter ==
    /\ pc = "unwind"
    /\ depth > 0
    /\ LET m == Layers(si)[depth]
       IN /\ rv' = MwRet(m, rv, re).val
          /\ re' = MwRet(m, rv, re).err
          /\ log' = Append(log, Event("after", m, si, 0, rv))
    /\ depth' = depth - 1
    /\ UNCHANGED <<steps, middlewares, seen, applied, prev, pc, input, curr, err, si, arg,
                   results, errs, wg, launched, bpc, ret>>

\* mutant: the value the failing step was called with
FailValuePrev(before, after) == before

\* the value Execute returns with an error, line 51: curr, just assigned
FailValue(before, after) == after

\* lines 49-52: curr, err = s(curr); if err != nil { return curr, err }
ExecuteStep ==
    /\ pc = "unwind"
    /\ depth = 0
    /\ curr' = rv
    /\ err' = re
    /\ log' = Append(log, Event("return", "step", si, 0, rv))
    /\ IF Stops(re)
       THEN /\ pc' = "idle"
            /\ ret' = [done |-> TRUE, val |-> FailValue(curr, rv), err |-> re]
            /\ UNCHANGED si
       ELSE /\ pc' = "loop"
            /\ si' = si + 1
            /\ UNCHANGED ret
    /\ UNCHANGED <<steps, middlewares, seen, applied, prev, input, depth, arg, rv, re,
                   results, errs, wg, launched, bpc>>

----------------------------------------------------------------------------
(* Specifications *)

\* the steps of a running Execute call outside Parallel
RunSequential ==
    \/ ExecuteCall \/ ExecuteDone \/ MwBefore \/ LeafCall \/ ConditionalCall
    \/ MwAfter \/ ExecuteStep

\* the steps of a running Parallel closure and of its goroutines
RunParallel ==
    \/ ParallelCall \/ ParallelGo
    \/ \E idx \in DOMAIN bpc : BranchRun(idx)
    \/ \E idx \in DOMAIN bpc : BranchDone(idx)
    \/ ParallelWait \/ ParallelScan \/ ParallelCombine

\* any use of the builder with middlewares of Mws and steps of RegSteps
Next ==
    \/ \E mw \in Mws : Use(mw)
    \/ \E step \in RegSteps : Then(step)
    \/ \E x \in Inputs : Execute(x)
    \/ RunSequential

Spec == Init /\ [][Next]_vars

\* New().Then(Wrap(inc)): a step in front of the Parallel step
ThenFirst == Len(steps) = 0 /\ Then(Leaf("inc"))

\* ...Then(Parallel(combiner, branches...)) with any combiner and branches,
\* as the last step
ThenParallel ==
    /\ \A j \in 1..Len(steps) : steps[j].kind # "par"
    /\ \E step \in ParSteps : Then(step)

NextPar ==
    \/ ThenFirst
    \/ ThenParallel
    \/ \E x \in Inputs : Execute(x)
    \/ ExecuteCall \/ ExecuteDone \/ LeafCall \/ ExecuteStep
    \/ RunParallel

SpecPar == Init /\ [][NextPar]_vars

\* the pipelines of SpecPar, each executed and executed again
NextTwice ==
    \/ ThenFirst
    \/ ThenParallel
    \/ \E x \in Inputs : Execute(x)
    \/ \E x \in Inputs : ExecuteAgain(x)
    \/ ExecuteCall \/ ExecuteDone \/ LeafCall \/ ExecuteStep
    \/ RunParallel

SpecTwice == Init /\ [][NextTwice]_vars

\* New().Then(Parallel(sum, branches...)) with any branches
ThenLive ==
    /\ Len(steps) = 0
    /\ \E bs \in BranchLists : Then(Parallel("sum", bs))

\* the steps of the goroutine that called Execute on such a pipeline
MainRuns ==
    \/ ExecuteCall \/ ExecuteDone \/ ExecuteStep
    \/ ParallelCall \/ ParallelGo \/ ParallelWait \/ ParallelScan
    \/ ParallelCombine

\* the steps of branch goroutine idx
BranchSteps(idx) == BranchRun(idx) \/ BranchDone(idx)

NextLive ==
    \/ ThenLive
    \/ \E x \in Inputs : Execute(x)
    \/ MainRuns
    \/ \E idx \in DOMAIN bpc : BranchSteps(idx)

\* the Go scheduler lets every goroutine that can run take its next step
Fairness ==
    /\ WF_vars(MainRuns)
    /\ \A idx \in 1..MaxBranches : WF_vars(BranchSteps(idx))

SpecLive == Init /\ [][NextLive]_vars /\ Fairness

\* ...Then(Conditional(predicate, thenStep, elseStep)) with any two leaf
\* StepFuncs, as the last step
ThenConditional ==
    /\ \A j \in 1..Len(steps) : steps[j].kind # "cond"
    /\ \E step \in CondSteps : Then(step)

NextCond ==
    \/ ThenFirst
    \/ ThenConditional
    \/ \E x \in Inputs : Execute(x)
    \/ ExecuteCall \/ ExecuteDone \/ LeafCall \/ ConditionalCall \/ ExecuteStep

SpecCond == Init /\ [][NextCond]_vars

----------------------------------------------------------------------------
(* What the registered steps compute, as functions of their argument.     *)
(* Used by the properties below only; "hang" is never applied.            *)

\* the argument-to-result function of an unwrapped step
RefRaw(s, x) ==
    IF s.kind = "fn" THEN FnCall(s.fn, x)
    ELSE IF s.kind = "cond"
    THEN FnCall(IF Predicate(s.pred, x) THEN s.thenStep ELSE s.elseStep, x)
    ELSE LET outs == [k \in 1..Len(s.branches) |-> FnCall(s.branches[k], x)]
             bad == {k \in DOMAIN outs : outs[k].err # nil}
             low == CHOOSE k \in bad : \A j \in bad : k <= j
         IN IF bad # {}
            THEN [val |-> outs[1].val, err |-> outs[low].err]
            ELSE Combiner(s.comb, [k \in DOMAIN outs |-> outs[k].val])

\* result r of the wrapped function seen through middlewares ms, the first
\* of ms being the outermost
RECURSIVE RefWrap(_, _)
RefWrap(ms, r) ==
    IF ms = <<>> THEN r
    ELSE LET inner == RefWrap(Tail(ms), r)
         IN MwRet(Head(ms), inner.val, inner.err)

\* step j under the middlewares registered before its Then call
RefStep(j, x) == RefWrap(seen[j], RefRaw(steps[j], x))

\* the value handed to step k when steps 1..k-1 succeed on x
RECURSIVE RefIn(_, _)
RefIn(k, x) == IF k = 1 THEN x ELSE RefStep(k - 1, RefIn(k - 1, x)).val

\* the first step that fails on x (empty when none does)
FirstFail(x) ==
    {k \in 1..Len(steps) :
        /\ RefStep(k, RefIn(k, x)).err # nil
        /\ \A j \in 1..(k - 1) : RefStep(j, RefIn(j, x)).err = nil}

\* the invocations and returns of registered steps, in the order they happened
StepCalls == SelectSeq(log, LAMBDA e : e.ev \in {"invoke", "return"})

\* how many times the body of registered step j was entered
BodyRuns(j) ==
    Len(SelectSeq(log, LAMBDA e : e.idx = j /\ e.ev \in {"call", "parallel"}))

----------------------------------------------------------------------------
(* Properties *)

\* C1: when step k is the first step to fail, Execute returns the value
\* and the failure that step k's failing call returned.
C1_FailingStepOutput ==
    ret.done =>
        \A k \in FirstFail(input) :
            /\ ret.val = RefStep(k, RefIn(k, input)).val
            /\ ret.err = RefStep(k, RefIn(k, input)).err

\* an Execute call whose second step failed with an output that is neither
\* its argument nor Execute's input
C1_Witness ==
    /\ ret.done /\ ret.err # nil /\ FirstFail(input) = {2}
    /\ ret.val # input /\ ret.val # RefIn(2, input)

\* C2: the registered steps are invoked in registration order, one after
\* the other has returned, each body once, up to and including the first
\* failing step (or the last step); nothing is invoked after it.
C2_InvocationOrder ==
    /\ \A p \in 1..Len(StepCalls) :
          /\ StepCalls[p].idx = (p + 1) \div 2
          /\ StepCalls[p].ev = IF p % 2 = 1 THEN "invoke" ELSE "return"
    /\ \A j \in 1..Len(steps) :
          BodyRuns(j) <= 1 /\ (2 * j <= Len(StepCalls) => BodyRuns(j) = 1)
    /\ ret.done =>
          LET k == IF FirstFail(input) = {} THEN Len(steps)
                   ELSE CHOOSE j \in FirstFail(input) : TRUE
          IN /\ Len(StepCalls) = 2 * k
             /\ \A j \in (k + 1)..Len(steps) : BodyRuns(j) = 0

\* an Execute call that returned after its first step failed, a second
\* step being registered
C2_Witness ==
    /\ ret.done /\ Len(steps) = 2 /\ FirstFail(input) = {1}
    /\ Len(StepCalls) = 2 /\ BodyRuns(2) = 0

\* C3: when no step fails, Execute returns the composition of the steps in
\* registration order applied to the input, and no failure.
C3_Composition ==
    (ret.done /\ FirstFail(input) = {}) =>
        /\ ret.err = nil
        /\ ret.val = RefIn(Len(steps) + 1, input)

\* two different succeeding steps whose composition in the other order gives
\* another value
C3_Witness ==
    /\ ret.done /\ ret.err = nil /\ Len(steps) = 2
    /\ RefRaw(steps[1], RefRaw(steps[2], input).val).err = nil
    /\ RefRaw(steps[1], RefRaw(steps[2], input).val).val # ret.val

\* C4: with no step registered, Execute returns its input and no failure,
\* and runs no step and no middleware, however many Use calls were made.
C4_EmptyPipeline ==
    (ret.done /\ Len(steps) = 0) =>
        /\ ret.val = input
        /\ ret.err = nil
        /\ log = <<>>
        /\ applied = 0

\* an empty pipeline with middleware registered has been executed
C4_Witness == ret.done /\ Len(steps) = 0 /\ Len(middlewares) = MaxMw

\* the trace of registered step j's middleware closures and body
MwTrace(j) ==
    SelectSeq(log, LAMBDA e :
        e.idx = j /\ e.ev \in {"before", "call", "parallel", "after"})

\* step j has been invoked and has returned in the current Execute call
Returned(j) == 2 * j <= Len(StepCalls)

\* C5: a step registered after Use(m1), ..., Use(mn) runs as an onion: the
\* "before" logic of m1, ..., mn in that order, the step's own body, then
\* the "after" logic of mn, ..., m1.
C5_OnionOrder ==
    \A j \in 1..Len(steps) :
        Returned(j) =>
            LET t == MwTrace(j)
                n == Len(seen[j])
            IN /\ Len(t) = 2 * n + 1
               /\ t[n + 1].ev \in {"call", "parallel"}
               /\ \A p \in 1..n :
                     /\ t[p].ev = "before" /\ t[p].who = seen[j][p]
                     /\ t[2 * n + 2 - p].ev = "after"
                     /\ t[2 * n + 2 - p].who = seen[j][p]

\* a step registered under two different middlewares has run
C5_Witness ==
    \E j \in 1..Len(steps) :
        Returned(j) /\ Len(seen[j]) = 2 /\ seen[j][1] # seen[j][2]

\* C6: a registered step is wrapped by exactly the middlewares registered
\* before its Then call, in that order, and in every Execute call it runs
\* those and returns what they make of the step's result, whatever was
\* registered with Use afterwards.
C6_FrozenAtThen ==
    \A j \in 1..Len(steps) :
        /\ steps[j].layers = seen[j]
        /\ Returned(j) =>
              /\ Len(SelectSeq(log, LAMBDA e : e.idx = j /\ e.ev = "before"))
                    = Len(seen[j])
              /\ StepCalls[2 * j].x = RefStep(j, StepCalls[2 * j - 1].x).val

\* an Execute call returned after a middleware was registered behind step 1
\* that would have changed step 1's result
C6_Witness ==
    /\ ret.done /\ Len(steps) >= 1
    /\ Len(middlewares) > Len(seen[1])
    /\ RefWrap(middlewares, RefRaw(steps[1], input)) # RefStep(1, input)

----------------------------------------------------------------------------
(* Properties of Parallel *)

\* the Parallel closure of step si has just returned to its caller
ParReturned ==
    /\ pc = "unwind"
    /\ steps[si].kind = "par"
    /\ depth = Len(steps[si].layers)

\* what branch k returns on the argument of the running Parallel step
BranchOut(k) == FnCall(steps[si].branches[k], arg)

\* the branches that fail on that argument
RefFailed == {k \in 1..Len(steps[si].branches) : BranchOut(k).err # nil}

\* the branch calls of the running Parallel step, in the order they were made
BranchOrder == SelectSeq(log, LAMBDA e : e.ev = "branch" /\ e.idx = si)

\* how many times branch k of the running Parallel step was called
BranchRuns(k) == Len(SelectSeq(BranchOrder, LAMBDA e : e.br = k))

\* C7: when every branch succeeds, Parallel returns the combiner's result
\* on the branches' outputs in branch-list order, whatever order the
\* branches ran in, and every branch was called with the step's argument.
C7_ParallelCombines ==
    (ParReturned /\ RefFailed = {}) =>
        LET outs == [k \in 1..Len(steps[si].branches) |-> BranchOut(k).val]
        IN /\ results = outs
           /\ rv = Combiner(steps[si].comb, outs).val
           /\ re = Combiner(steps[si].comb, outs).err
           /\ \A p \in 1..Len(BranchOrder) : BranchOrder[p].x = arg

\* two different succeeding branches under the position-sensitive combiner,
\* the second having run first
C7_Witness ==
    /\ ParReturned /\ RefFailed = {} /\ steps[si].comb = "horner"
    /\ Len(steps[si].branches) = 2
    /\ BranchOut(1).val # BranchOut(2).val
    /\ BranchOrder[1].br = 2

\* C8: when a branch fails, the value Parallel returns with the failure is
\* slot 0 of results, the output of the first branch of the list.
C8_CompanionIsSlotZero ==
    (ParReturned /\ RefFailed # {}) =>
        /\ re # nil
        /\ rv = results[1]
        /\ rv = BranchOut(1).val

\* only the second branch failed, it ran first, and the value returned is
\* neither its output nor the step's argument
C8_Witness ==
    /\ ParReturned /\ RefFailed = {2}
    /\ BranchOrder[1].br = 2
    /\ rv # BranchOut(2).val /\ rv # arg

\* C9: when several branches fail, Parallel returns the failure of the
\* failing branch that comes first in the branch list.
C9_FirstErrorInListOrder ==
    (ParReturned /\ RefFailed # {}) =>
        \E k \in RefFailed :
            /\ \A j \in RefFailed : k <= j
            /\ re = BranchOut(k).err

\* both branches failed with different failures, the second one first in time
C9_Witness ==
    /\ ParReturned /\ RefFailed = {1, 2}
    /\ BranchOut(1).err # BranchOut(2).err
    /\ BranchOrder[1].br = 2
    /\ re = BranchOut(1).err

\* C10: Parallel goes past its wait only when every listed branch has been
\* launched, called exactly once and has finished; until then a launched
\* branch can always run and finish, whatever its siblings returned.
C10_AllBranchesComplete ==
    /\ (pc \in {"scan", "combine"} \/ ParReturned) =>
          /\ DOMAIN bpc = 1..Len(steps[si].branches)
          /\ wg = 0
          /\ \A k \in DOMAIN bpc : bpc[k] = "done" /\ BranchRuns(k) = 1
    /\ pc \in {"go", "wait"} =>
          \A k \in DOMAIN bpc :
              /\ BranchRuns(k) <= 1
              /\ (bpc[k] = "ready" /\ steps[si].branches[k] # "hang")
                    => ENABLED BranchRun(k)
              /\ bpc[k] = "ran" => ENABLED BranchDone(k)

\* Parallel is past its wait; the branch that ran first failed and its
\* sibling ran after it
C10_Witness ==
    /\ pc = "scan" /\ Len(bpc) = 2 /\ Len(BranchOrder) = 2
    /\ errs[BranchOrder[1].br] # nil

\* the stores into results and errs of the running Parallel step: br is
\* the goroutine that stored, x the slot it stored into
SlotWrites == SelectSeq(log, LAMBDA e : e.ev = "write" /\ e.idx = si)

\* positions in the trace where the running Parallel step reads its slices
\* (the error scan and the combiner call)
SlotReads == {p \in 1..Len(log) : log[p].ev \in {"scan", "combine"} /\ log[p].idx = si}

\* C11: slot i of results and errs is stored into by branch i only, once,
\* and the slices are read (error scan, combiner) only when no branch is
\* still running: every store comes before the wait returns, every read
\* after it.
C11_SlotsOwnedAndReadAfterJoin ==
    /\ \A p \in 1..Len(SlotWrites) :
          /\ SlotWrites[p].x = SlotWrites[p].br
          /\ \A q \in 1..Len(SlotWrites) :
                SlotWrites[q].x = SlotWrites[p].x => q = p
    /\ \A p \in SlotReads :
          \A q \in 1..Len(log) :
              (log[q].ev = "write" /\ log[q].idx = si) => q < p
    /\ pc \in {"go", "wait"} => SlotReads = {}
    /\ (pc \in {"scan", "combine"} \/ SlotReads # {}) =>
          /\ Len(SlotWrites) = Len(steps[si].branches)
          /\ \A k \in DOMAIN bpc : bpc[k] = "done"

\* both branches have stored, the second one first, and the scan has read
C11_Witness ==
    /\ SlotReads # {} /\ Len(SlotWrites) = 2
    /\ SlotWrites[1].br = 2 /\ SlotWrites[2].br = 1

----------------------------------------------------------------------------
(* Properties of Conditional *)

\* the Conditional closure of step si has just returned to its caller
CondReturned ==
    /\ pc = "unwind"
    /\ steps[si].kind = "cond"
    /\ depth = Len(steps[si].layers)

\* what the Conditional closure of step si did: predicate and branch calls
CondTrace ==
    SelectSeq(log, LAMBDA e : e.idx = si /\ e.ev \in {"pred", "call"})

\* the value step si was invoked with
InvokedWith ==
    SelectSeq(log, LAMBDA e : e.idx = si /\ e.ev = "invoke")[1].x

\* C12: a Conditional step evaluates its predicate once on the step's
\* input, calls thenStep when it holds and elseStep otherwise, once and on
\* that same input, never the other branch, and returns what the called
\* branch returned.
C12_ConditionalRoutes ==
    CondReturned =>
        LET s == steps[si]
            x == InvokedWith
            want == IF Predicate(s.pred, x) THEN s.thenStep ELSE s.elseStep
        IN /\ Len(CondTrace) = 2
           /\ CondTrace[1].ev = "pred" /\ CondTrace[1].x = x
           /\ CondTrace[2].ev = "call" /\ CondTrace[2].x = x
           /\ CondTrace[2].who = want
           /\ rv = FnCall(want, x).val
           /\ re = FnCall(want, x).err

\* the predicate was false, elseStep failed and its failure was returned;
\* thenStep, which never returns, was not called
C12_Witness ==
    /\ CondReturned /\ steps[si].thenStep = "hang"
    /\ ~Predicate(steps[si].pred, InvokedWith)
    /\ re # nil /\ InvokedWith # input

----------------------------------------------------------------------------
(* Properties of repeated calls *)

\* the order in which the branches were called in trace t
BranchesOf(t) == SelectSeq(t, LAMBDA e : e.ev = "branch")

\* C13: with pure steps, an Execute call made again with the same input and
\* no Use or Then in between returns the same value and the same failure,
\* also when the branches of a Parallel step run in another order.
C13_SameInputSameResult ==
    (prev.done /\ ret.done) =>
        /\ ret.val = prev.val
        /\ ret.err = prev.err

\* the second call has returned and its two branches ran in the other
\* order than in the first call
C13_Witness ==
    /\ prev.done /\ ret.done
    /\ Len(BranchesOf(log)) = 2
    /\ BranchesOf(log)[1].br # BranchesOf(prev.log)[1].br
    /\ BranchesOf(log)[1].who # BranchesOf(log)[2].who

----------------------------------------------------------------------------
(* Termination of Parallel *)

\* a Parallel closure is running in step si
ParRunning == pc \in {"go", "wait"} /\ steps[si].kind = "par"

\* some branch of step j never returns
Hangs(j) == \E k \in DOMAIN steps[j].branches : steps[j].branches[k] = "hang"

\* C14: when every branch returns, a running Parallel step returns, the
\* goroutines being scheduled fairly; when some branch never returns, the
\* step never gets past its wait and Execute never returns, also when
\* another branch has already failed.
C14_ParallelTermination ==
    /\ (ParRunning /\ ~Hangs(si)) ~> ParReturned
    /\ [](\A j \in 1..Len(steps) :
            (steps[j].kind = "par" /\ Hangs(j)) =>
                /\ ~ret.done
                /\ (pc # "idle" /\ si = j) => pc \in {"loop", "enter", "go", "wait"})

\* the step waits for a branch that never returns; its sibling has failed
\* and finished
C14_Witness ==
    /\ pc = "wait" /\ Hangs(si) /\ Len(bpc) = 2
    /\ \E k \in DOMAIN bpc : bpc[k] = "done" /\ errs[k] # nil

----------------------------------------------------------------------------
(* The combiner *)

\* the combiner calls of the running Parallel step
CombinerCalls ==
    SelectSeq(log, LAMBDA e : e.ev = "combine" /\ e.idx = si)

\* C15: a Parallel step calls its combiner at most once, and exactly when
\* no branch failed; it then returns the combiner's value and failure
\* unchanged; when a branch failed the combiner is not called.
C15_CombinerIffNoFailure ==
    /\ (pc \in {"go", "wait", "scan", "combine"}) => Len(CombinerCalls) = 0
    /\ ParReturned =>
          IF RefFailed = {}
          THEN /\ Len(CombinerCalls) = 1
               /\ rv = Combiner(steps[si].comb, results).val
               /\ re = Combiner(steps[si].comb, results).err
          ELSE /\ Len(CombinerCalls) = 0
               /\ re \in {BranchOut(k).err : k \in RefFailed}

\* every branch succeeded and the combiner's own failure was returned
C15_Witness ==
    /\ ParReturned /\ RefFailed = {} /\ Len(steps[si].branches) = 2
    /\ Len(CombinerCalls) = 1 /\ re = "EC"

----------------------------------------------------------------------------
(* Properties of the builder *)

\* sequence t is sequence s with one entry added at the end
Appended(s, t) == Len(t) = Len(s) + 1 /\ SubSeq(t, 1, Len(s)) = s

\* C16: the step list and the middleware list are append-only.  A Use call
\* appends one entry to the middleware list and leaves the step list alone,
\* a Then call appends one entry to the step list and leaves the middleware
\* list alone, and every step of an Execute call leaves both alone.
C16_AppendOnly ==
    [][ IF pc # "idle" \/ pc' # "idle"
        THEN steps' = steps /\ middlewares' = middlewares
        ELSE IF seen' # seen
        THEN Appended(steps, steps') /\ middlewares' = middlewares
        ELSE /\ \E mw \in Mws : middlewares' = Append(middlewares, mw)
             /\ steps' = steps ]_vars

\* Use, Then and Execute have all been called, Use and Then twice
C16_Witness ==
    /\ ret.done /\ Len(steps) = 2 /\ Len(middlewares) = 2
    /\ seen[1] = <<>> /\ Len(seen[2]) = 1
    /\ middlewares[1] # middlewares[2]

\* the sum of the numbers of middlewares registered at the Then calls
RECURSIVE SeenTotal(_)
SeenTotal(j) == IF j = 0 THEN 0 ELSE Len(seen[j]) + SeenTotal(j - 1)

\* C17: each Then call applies every middleware registered so far once, and
\* nothing else applies one: at any time the number of applications made is
\* the sum, over the Then calls, of the number of middlewares registered at
\* the call, and each registered step carries exactly those closures.
C17_AppliedOncePerThen ==
    /\ Len(seen) = Len(steps)
    /\ applied = SeenTotal(Len(seen))
    /\ \A j \in 1..Len(steps) : steps[j].layers = seen[j]

\* two steps registered after one Use have been executed, a second
\* middleware having been added after the last Then
C17_Witness ==
    /\ ret.done /\ Len(steps) = 2
    /\ Len(seen[1]) = 1 /\ Len(seen[2]) = 1 /\ Len(middlewares) = 2
    /\ applied = 2

----------------------------------------------------------------------------
(* Index ranges in Parallel *)

\* C18: Parallel makes no out-of-range access: results and errs have one
\* slot per branch, a branch stores into a slot that exists, and slot 0 of
\* results is read only when a branch failed, hence exists.  With zero
\* branches nothing is launched and the combiner's result on the empty
\* results slice is returned.
C18_NoOutOfRange ==
    /\ (pc \in {"go", "wait", "scan", "combine"} \/ ParReturned) =>
          /\ Len(results) = Len(steps[si].branches)
          /\ Len(errs) = Len(steps[si].branches)
          /\ \A p \in 1..Len(SlotWrites) : SlotWrites[p].x \in DOMAIN results
    /\ (pc = "scan" /\ Failed(errs) # {}) => 1 \in DOMAIN results
    /\ (ParReturned /\ Len(CombinerCalls) = 0) => 1 \in DOMAIN results
    /\ (ParReturned /\ Len(steps[si].branches) = 0) =>
          /\ launched = 0 /\ bpc = <<>> /\ BranchOrder = <<>>
          /\ Len(CombinerCalls) = 1
          /\ results = <<>>
          /\ rv = Combiner(steps[si].comb, <<>>).val
          /\ re = Combiner(steps[si].comb, <<>>).err

\* a Parallel step with no branch has returned its combiner's failure
C18_Witness ==
    /\ ParReturned /\ Len(steps[si].branches) = 0
    /\ Len(CombinerCalls) = 1 /\ re = "EC"

----------------------------------------------------------------------------
(* Middleware decides the outcome *)

\* C19: Execute stops or continues on what the registered closure (the
\* step under its middlewares) returned, not on what the step itself
\* returned: when that outcome is a success Execute goes on with its
\* value, when it is a failure Execute returns its value and failure.
C19_WrappedOutcomeDecides ==
    \A j \in 1..Len(steps) :
        Returned(j) =>
            LET w == RefStep(j, StepCalls[2 * j - 1].x)
            IN IF w.err = nil
               THEN /\ Len(StepCalls) > 2 * j => StepCalls[2 * j + 1].x = w.val
                    /\ (pc = "loop" /\ si = j + 1) => curr = w.val
                    /\ ret.done =>
                          \/ Len(StepCalls) > 2 * j
                          \/ j = Len(steps) /\ ret.val = w.val /\ ret.err = nil
               ELSE /\ Len(StepCalls) = 2 * j
                    /\ pc = "idle"
                    /\ ret = [done |-> TRUE, val |-> w.val, err |-> w.err]

\* the first step failed, its middleware returned success, and the second
\* step was invoked with the middleware's value
C19_Witness ==
    /\ Len(StepCalls) >= 3
    /\ RefRaw(steps[1], StepCalls[1].x).err # nil
    /\ RefStep(1, StepCalls[1].x).err = nil
    /\ StepCalls[3].x = RefStep(1, StepCalls[1].x).val
    /\ StepCalls[3].x # RefRaw(steps[1], StepCalls[1].x).val

\* the converse case: the step succeeded, its middleware reported a failure
\* and Execute returned the middleware's value and failure
C19_DenyReached ==
    /\ ret.done /\ Len(steps) = 2 /\ Len(StepCalls) = 2
    /\ RefRaw(steps[1], StepCalls[1].x).err = nil
    /\ ret.err = "EM" /\ ret.val = RefStep(1, StepCalls[1].x).val

====
